\* The blocks documents are made of, as the tokenizer delivers them: two
\* titles and a title without text, two object or enumeration headings and a
\* heading without text, a list of two items whose first item holds a nested
\* list of one option, a list item with a plain name, with a name in bold and
\* without text, a nested list of one option, and a fenced code block of one
\* mapping line.
---------------------------- MODULE Spec2Model ----------------------------
(***************************************************************************)
(* A model of the two-pass structural extractor of md-models               *)
(* (src/src/markdown/parser.rs).                                           *)
(*                                                                         *)
(* Strings are sequences of one-character strings, so that split, trim,    *)
(* join and the term regex are computed and not assumed.  Option<T> is a   *)
(* sequence of length at most one: None is << >>, Some(x) is <<x>>.        *)
(***************************************************************************)
EXTENDS Naturals, Sequences, FiniteSets

\* ------------------------------------------------------------------ bounds

\* Events the tokenizer hands to Pass 1 when any event may follow any other.
MaxEvents == 11

\* Blocks of a document that both passes tokenize.
MaxBlocks == 4

\* Blocks of a document whose two passes are run interleaved.
MaxParBlocks == 3

\* Events the tokenizer hands to Pass 2 when any event may follow any other.
MaxEnumEvents == 7

\* Length of the lists of type names the type registry is asked about.
MaxNames == 3

\* Length of the strings the pure text functions are applied to.
MaxStrLen == 5

\* ----------------------------------------------------------------- strings

None == << >>

Some(x) == <<x>>

\* char::is_whitespace, on the characters the model uses.
IsSpace(c) == c \in {" ", "\n", "\t"}

RECURSIVE TrimStart(_)
TrimStart(s) ==
    IF s # << >> /\ IsSpace(Head(s)) THEN TrimStart(Tail(s)) ELSE s

RECURSIVE TrimEnd(_)
TrimEnd(s) ==
    IF s # << >> /\ IsSpace(s[Len(s)])
    THEN TrimEnd(SubSeq(s, 1, Len(s) - 1))
    ELSE s

\* str::trim
Trim(s) == TrimEnd(TrimStart(s))

RECURSIVE SplitAt(_, _, _, _)
SplitAt(s, sep, i, cur) ==
    IF i > Len(s) THEN <<cur>>
    ELSE IF s[i] = sep THEN <<cur>> \o SplitAt(s, sep, i + 1, << >>)
    ELSE SplitAt(s, sep, i + 1, Append(cur, s[i]))

\* str::split(char): one segment more than there are separators.
Split(s, sep) == SplitAt(s, sep, 1, << >>)

RECURSIVE Join(_, _)
Join(parts, sep) ==
    IF parts = << >> THEN << >>
    ELSE IF Len(parts) = 1 THEN parts[1]
    ELSE parts[1] \o <<sep>> \o Join(Tail(parts), sep)

\* str::contains(char)
Contains(s, c) == \E i \in 1..Len(s) : s[i] = c

\* str::replace(c, "")
Remove(s, c) == SelectSeq(s, LAMBDA x : x # c)

\* str::split_whitespace().next(): None when the string holds no token.
FirstToken(s) ==
    LET t == TrimStart(s)
        stops == {i \in 1..Len(t) : IsSpace(t[i])}
        stop == IF stops = {} THEN Len(t) + 1
                ELSE CHOOSE i \in stops : \A j \in stops : i <= j
    IN IF t = << >> THEN None ELSE Some(SubSeq(t, 1, stop - 1))


\* ------------------------------------------------------- the data model

\* object::Object::new
NewObject(n, term) == [name |-> n, term |-> term, attributes |-> << >>]

\* attribute::Attribute::new
NewAttribute(n, required) == [name |-> n, required |-> required, options |-> << >>]

\* attribute::AttrOption::new
NewAttrOption(key, value) == [key |-> key, value |-> value]

\* Object::has_attributes
HasAttributes(o) == o.attributes # << >>

\* Enumeration::has_values
HasValues(en) == en.mappings # {}

\* The vector with its last element replaced (last_mut).
SetLast(seq, x) == [seq EXCEPT ![Len(seq)] = x]

\* Object::add_attribute, on the last object.
AddAttribute(objs, attr) ==
    LET o == objs[Len(objs)]
    IN SetLast(objs, [o EXCEPT !.attributes = Append(@, attr)])

\* Object::create_new_attribute, on the last object.
CreateNewAttribute(objs, n, required) == AddAttribute(objs, NewAttribute(n, required))

\* Object::get_last_attribute followed by Attribute::add_option.
AddOptionToLastAttribute(objs, key, value) ==
    LET o == objs[Len(objs)]
        a == o.attributes[Len(o.attributes)]
        a2 == [a EXCEPT !.options = Append(@, NewAttrOption(key, value))]
    IN SetLast(objs, [o EXCEPT !.attributes = SetLast(@, a2)])

\* BTreeMap::insert on a map kept as a set of <<key, value>> pairs.
MapInsert(m, key, value) == {p \in m : p[1] # key} \cup {<<key, value>>}

\* ------------------------------------------------- the pure text functions

\* extract_object_term with a regex that runs on to the last ")": \((.+)\).
ExtractTermToLastParen(heading) ==
    LET Close(i) == {j \in (i + 2)..Len(heading) : heading[j] = ")"}
        LastClose(i) == CHOOSE j \in Close(i) : \A k \in Close(i) : j >= k
        Starts == {i \in 1..Len(heading) : heading[i] = "(" /\ Close(i) # {}}
        start == CHOOSE i \in Starts : \A k \in Starts : i <= k
    IN IF Starts = {} THEN None
       ELSE Some(SubSeq(heading, start + 1, LastClose(start) - 1))

\* extract_object_term: the regex \(([^)]+)\), leftmost match.  A match starts
\* at a "(" whose next ")" lies at least two places further on.
ExtractObjectTerm(heading) ==
    LET Close(i) == {j \in (i + 1)..Len(heading) : heading[j] = ")"}
        FirstClose(i) == CHOOSE j \in Close(i) : \A k \in Close(i) : j <= k
        Starts == {i \in 1..Len(heading) :
                      /\ heading[i] = "("
                      /\ Close(i) # {}
                      /\ FirstClose(i) > i + 1}
        start == CHOOSE i \in Starts : \A k \in Starts : i <= k
    IN IF Starts = {} THEN None
       ELSE Some(SubSeq(heading, start + 1, FirstClose(start) - 1))

\* process_object_heading once the heading text is read: None is the panic of
\* unwrap() on a heading without a token.
ObjectOfHeading(heading) ==
    LET term == ExtractObjectTerm(heading)
        tok == FirstToken(heading)
    IN IF tok = None THEN None ELSE Some(NewObject(tok[1], term))

\* process_option with only the segment after the first colon as the value.
ProcessOptionSecondSegment(option) ==
    LET parts == Split(option, ":")
    IN IF ~(Len(parts) > 1) THEN None
       ELSE Some([key |-> Trim(parts[1]), value |-> Trim(parts[2])])

\* process_option: None is the failed assertion.
ProcessOption(option) ==
    LET parts == Split(option, ":")
    IN IF ~(Len(parts) > 1) THEN None
       ELSE Some([key |-> Trim(parts[1]),
                  value |-> Trim(Join(Tail(parts), ":"))])

\* One line of process_enum_mappings that takes any line of two segments or more.
ProcessEnumLineAtLeastTwo(m, line) ==
    LET parts == Split(line, "=")
    IN IF Len(parts) < 2 THEN m
       ELSE MapInsert(m, Remove(Trim(parts[1]), "\""), Remove(Trim(parts[2]), "\""))

\* One line of process_enum_mappings.
ProcessEnumLine(m, line) ==
    LET parts == Split(line, "=")
    IN IF Len(parts) # 2 THEN m
       ELSE MapInsert(m, Remove(Trim(parts[1]), "\""), Remove(Trim(parts[2]), "\""))

RECURSIVE FoldLines(_, _)
FoldLines(m, lines) ==
    IF lines = << >> THEN m
    ELSE FoldLines(ProcessEnumLine(m, Head(lines)), Tail(lines))

\* process_enum_mappings, on the mappings of the enumeration.
ProcessEnumMappings(m, text) == FoldLines(m, Split(text, "\n"))

\* distribute_attribute_options without the return of line 248: the option is
\* added and the string then becomes an attribute as well.
DistributeWithoutReturn(objs, attr_string) ==
    IF objs = << >> THEN None
    ELSE IF Contains(attr_string, ":")
    THEN LET kv == ProcessOption(attr_string)
         IN IF kv = None \/ ~HasAttributes(objs[Len(objs)]) THEN None
            ELSE Some(CreateNewAttribute(
                     AddOptionToLastAttribute(objs, kv[1].key, kv[1].value),
                     attr_string, FALSE))
    ELSE Some(CreateNewAttribute(objs, attr_string, FALSE))

\* distribute_attribute_options making a required attribute of a string
\* without ':'.
DistributeAsRequired(objs, attr_string) ==
    IF Contains(attr_string, ":")
    THEN LET kv == ProcessOption(attr_string)
         IN IF kv = None \/ objs = << >> \/ ~HasAttributes(objs[Len(objs)])
            THEN None
            ELSE Some(AddOptionToLastAttribute(objs, kv[1].key, kv[1].value))
    ELSE IF objs = << >> THEN None
    ELSE Some(CreateNewAttribute(objs, attr_string, TRUE))

\* distribute_attribute_options: None is a panic.
DistributeAttributeOptions(objs, attr_string) ==
    IF Contains(attr_string, ":")
    THEN LET kv == ProcessOption(attr_string)
         IN IF kv = None \/ objs = << >> \/ ~HasAttributes(objs[Len(objs)])
            THEN None
            ELSE Some(AddOptionToLastAttribute(objs, kv[1].key, kv[1].value))
    ELSE IF objs = << >> THEN None
    ELSE Some(CreateNewAttribute(objs, attr_string, FALSE))

\* ----------------------------------------------------------------- XMLType

\* The two variants of XMLType (xmltype.rs lines 6-11).
XmlAttribute(is_attr, n) == [variant |-> "Attribute", is_attr |-> is_attr, name |-> n]

XmlElement(is_attr, n) == [variant |-> "Element", is_attr |-> is_attr, name |-> n]

\* from_str: strip_prefix('@') takes one '@' off the front.
XmlFromStr(s) ==
    IF s # << >> /\ Head(s) = "@" THEN XmlAttribute(TRUE, Tail(s))
    ELSE XmlElement(FALSE, s)

\* serialize: the two fields of either variant, and nothing of the variant.
XmlSerialize(x) == [is_attr |-> x.is_attr, name |-> x.name]

\* deserialize for a reader that makes an Element of every value.
XmlDeserializeAsElement(v) == XmlElement(FALSE, v.name)

\* deserialize: the variant is chosen by the is_attr field.
XmlDeserialize(v) ==
    IF v.is_attr THEN XmlAttribute(TRUE, v.name) ELSE XmlElement(FALSE, v.name)

\* ---------------------------------------------------------- PrimitiveTypes

\* The types vector of PrimitiveTypes::new (primitives.rs lines 29-36).
Types == <<"string", "float", "integer", "boolean", "bool", "null">>

\* json_mappings without the entry of line 25.
JsonMappingsWithoutBool ==
    { <<"string", "string">>, <<"float", "number">>, <<"integer", "integer">>,
      <<"boolean", "boolean">>, <<"null", "null">> }

\* The json_mappings of PrimitiveTypes::new (lines 21-26).
JsonMappings ==
    { <<"string", "string">>, <<"float", "number">>, <<"integer", "integer">>,
      <<"boolean", "boolean">>, <<"bool", "boolean">>, <<"null", "null">> }

\* is_primitive: self.types.contains(dtype).
IsPrimitive(dtype) == \E i \in 1..Len(Types) : Types[i] = dtype

\* dtype_to_json: None is the panic of line 109.
DtypeToJson(dtype) ==
    IF ~(\E p \in JsonMappings : p[1] = dtype) THEN None
    ELSE Some((CHOOSE p \in JsonMappings : p[1] = dtype)[2])

\* filter_primitive that puts each name found in front of the ones before.
RECURSIVE FilterPrimitiveReversed(_)
FilterPrimitiveReversed(dtypes) ==
    IF dtypes = << >> THEN << >>
    ELSE IF IsPrimitive(Head(dtypes))
    THEN FilterPrimitiveReversed(Tail(dtypes)) \o <<Head(dtypes)>>
    ELSE FilterPrimitiveReversed(Tail(dtypes))

\* filter_primitive: the loop of lines 72-76.
RECURSIVE FilterPrimitive(_)
FilterPrimitive(dtypes) ==
    IF dtypes = << >> THEN << >>
    ELSE IF IsPrimitive(Head(dtypes))
    THEN <<Head(dtypes)>> \o FilterPrimitive(Tail(dtypes))
    ELSE FilterPrimitive(Tail(dtypes))

\* filter_non_primitives: the loop of lines 52-56.
RECURSIVE FilterNonPrimitives(_)
FilterNonPrimitives(dtypes) ==
    IF dtypes = << >> THEN << >>
    ELSE IF ~IsPrimitive(Head(dtypes))
    THEN <<Head(dtypes)>> \o FilterNonPrimitives(Tail(dtypes))
    ELSE FilterNonPrimitives(Tail(dtypes))

\* The type names the registry is asked about: the recognized ones, the name
\* of an object, a recognized name in another case, and the empty name.
TypeNames ==
    {"string", "float", "integer", "boolean", "bool", "null", "Thing", "Bool", ""}

\* The lists of type names.
TypeLists == UNION {[1..k -> TypeNames] : k \in 0..MaxNames}

\* ------------------------------------------------------------ the events

\* pulldown_cmark::Event, as far as the two passes tell events apart: the
\* starts of level-1 and level-3 headings, of unordered lists, of list items
\* and of fenced code blocks, the end of an unordered list, text runs, and
\* everything else, which both passes ignore: the end of a list item (IE) and
\* the other starts and ends (OT).  NoEvent is the None of an exhausted
\* iterator.
Ev(tag) == [tag |-> tag, text |-> << >>]

TextEv(t) == [tag |-> "Text", text |-> t]

NoEvent == Ev("None")

H1 == Ev("H1")

H3 == Ev("H3")

LS == Ev("LS")

LE == Ev("LE")

IT == Ev("IT")

CB == Ev("CB")

IE == Ev("IE")

OT == Ev("OT")

\* Pass 1 on arbitrary streams: every event it tells apart, and as text runs a
\* name, options with and without a value, and the multiplicity marker.
StreamEvents ==
    {H1, H3, LS, LE, IT, IE, OT}
        \cup {TextEv(t) : t \in {<<"a">>, <<"k", ":", "v">>, <<"k", ":">>, <<"[">>}}

\* The events Pass 2 may be handed when the tokenizer is the environment: the
\* events it acts on, any other event, a heading text and two code block
\* texts.
EnumStreamEvents ==
    {H3, CB, OT}
        \cup {TextEv(t) : t \in {<<"a">>, <<"k", "=", "v", "\n">>, <<"a", "=", "b">>}}

\* The blocks documents are made of, as the tokenizer delivers them: two
\* titles and a title without text, two object or enumeration headings and a
\* heading without text, the start of a list, a list item with a plain name, with a name in bold and without
\* text, a nested list of one option, and a fenced code block of one mapping
\* line.
Blocks ==
    { <<H1, TextEv(<<"M">>), OT>>,
      <<H1, TextEv(<<"N">>), OT>>,
      <<H1, OT>>,
      <<H3, TextEv(<<"A", " ", "(", "t", ")">>), OT>>,
      <<H3, TextEv(<<"b">>), OT>>,
      <<H3, OT>>,
      <<LS, IT, TextEv(<<"a">>),
           LS, IT, TextEv(<<"k", ":", "v">>), IE, LE, IE,
           IT, TextEv(<<"a">>), IE, LE>>,
      <<IT, TextEv(<<"a">>)>>,
      <<IT, OT, TextEv(<<"r">>), OT>>,
      <<IT, IE>>,
      <<LS, IT, TextEv(<<"k", ":", "v">>), IE, LE>>,
      <<CB, TextEv(<<"k", "=", "v", "\n">>), OT>> }

RECURSIVE Flatten(_)
Flatten(blocks) ==
    IF blocks = << >> THEN << >> ELSE Head(blocks) \o Flatten(Tail(blocks))

\* The documents of at most n blocks.
Docs(n) == {Flatten(bs) : bs \in UNION {[1..k -> Blocks] : k \in 0..n}}

\* The strings of at most n characters over an alphabet.
Strings(chars, n) == UNION {[1..k -> chars] : k \in 0..n}

\* The inputs of the pure text functions: heading texts, option strings,
\* code block texts and XML type tokens.
TextInputs ==
    Strings({"A", "t", " ", "(", ")"}, MaxStrLen)
        \cup Strings({"k", "v", ":", " "}, MaxStrLen)
        \cup Strings({"k", "v", "=", "\"", " ", "\n"}, MaxStrLen)
        \cup Strings({"@", "i", "d"}, MaxStrLen)

VARIABLES
    doc,      \* the document's events, when the document is fixed up front
    iter,     \* per pass, its Parser: events read so far, and whether it ended
    event,    \* per pass, the event its last iterator.next() returned
    pc1,      \* where Pass 1 stands
    name,     \* model.name
    objects,  \* the objects vector of parse_markdown
    options,  \* the options vector of extract_attribute_options
    pending,  \* the attr_strings still to distribute (the for loop, line 102)
    pc2,      \* where Pass 2 stands
    enums,    \* the enums vector of parse_markdown
    model,    \* the DataModel returned: None until the filters have run
    txt,      \* the string, or the list of type names, a function is applied to
    out       \* what the function returned

vars == <<doc, iter, event, pc1, name, objects, options, pending, pc2, enums,
          model, txt, out>>

p1vars == <<pc1, name, objects, options, pending>>

p2vars == <<pc2, enums>>

\* The parser each pass reads: parse_markdown builds one for each.
ObjIter == "obj"

\* Pass 2 reading on from the parser of Pass 1 instead of lines 54-55.
SharedIter == "obj"

EnumIter == "enum"

\* What iterator.next() may return when the tokenizer is the environment: any
\* event, or None; None for good once it was returned.
StreamRead(p) ==
    IF iter[p].eof \/ iter[p].pos >= MaxEvents THEN {NoEvent}
    ELSE StreamEvents \cup {NoEvent}

\* The same for Pass 2.
EnumStreamRead(p) ==
    IF iter[p].eof \/ iter[p].pos >= MaxEnumEvents THEN {NoEvent}
    ELSE EnumStreamEvents \cup {NoEvent}

\* What iterator.next() returns on the fixed document.
DocRead(p) ==
    IF iter[p].pos < Len(doc) THEN {doc[iter[p].pos + 1]} ELSE {NoEvent}

\* iterator.next() for a parser that hands out an event and stays before it.
AdvanceWithoutMoving(pass, p, e) ==
    /\ iter' = [iter EXCEPT ![p] = [pos |-> @.pos, eof |-> e = NoEvent]]
    /\ event' = [event EXCEPT ![pass] = e]

\* iterator.next() returning e to pass `pass` from parser p.
Advance(pass, p, e) ==
    /\ iter' = [iter EXCEPT ![p] =
                   [pos |-> IF e = NoEvent THEN @.pos ELSE @.pos + 1,
                    eof |-> e = NoEvent]]
    /\ event' = [event EXCEPT ![pass] = e]

\* ----------------------------------------------------------------- Pass 1

P1 == [pc |-> pc1, name |-> name, objects |-> objects,
       options |-> options, pending |-> pending]

SetP1(s) ==
    /\ pc1' = s.pc
    /\ name' = s.name
    /\ objects' = s.objects
    /\ options' = s.options
    /\ pending' = s.pending

Panic(s) == [s EXCEPT !.pc = "aborted"]

\* extract_name that hands back an empty name where the code panics.
ExtractNameOrEmpty(e) == IF e.tag = "Text" THEN Some(e.text) ELSE Some(<< >>)

\* extract_name: the text of the next event, None for its panic.
ExtractName(e) == IF e.tag = "Text" THEN Some(e.text) ELSE None

\* process_object_event taking the start of a code block for an item.
ProcessObjectEventCodeAsItem(s, e) ==
    CASE e.tag = "H1" -> [s EXCEPT !.pc = "h1"]
      [] e.tag = "H3" -> [s EXCEPT !.pc = "h3"]
      [] e.tag = "LS" ->
            IF s.objects = << >> THEN Panic(s)
            ELSE IF ~HasAttributes(s.objects[Len(s.objects)])
            THEN [s EXCEPT !.pc = "skip"]
            ELSE [s EXCEPT !.pc = "walk", !.options = << >>]
      [] e.tag \in {"IT", "CB"} -> [s EXCEPT !.pc = "attr0"]
      [] OTHER -> s

\* process_object_event on the event the main loop read (lines 85-113), up to
\* the handler's next read.
ProcessObjectEvent(s, e) ==
    CASE e.tag = "H1" -> [s EXCEPT !.pc = "h1"]
      [] e.tag = "H3" -> [s EXCEPT !.pc = "h3"]
      [] e.tag = "LS" ->
            IF s.objects = << >> THEN Panic(s)
            ELSE IF ~HasAttributes(s.objects[Len(s.objects)])
            THEN [s EXCEPT !.pc = "skip"]
            ELSE [s EXCEPT !.pc = "walk", !.options = << >>]
      [] e.tag = "IT" -> [s EXCEPT !.pc = "attr0"]
      [] OTHER -> s

\* The while loop of Pass 1 (lines 49-51).
MainLoop1(s, e) ==
    IF e = NoEvent THEN [s EXCEPT !.pc = "end"] ELSE ProcessObjectEvent(s, e)

\* Line 87 for a model that keeps the name it already has.
ModelNameKeepFirst(s, e) ==
    LET n == ExtractName(e)
    IN IF n = None THEN Panic(s)
       ELSE [s EXCEPT !.pc = "main", !.name = IF @ = None THEN Some(n[1]) ELSE @]

\* Line 87: model.name = Some(extract_name(iterator)).
ModelName(s, e) ==
    LET n == ExtractName(e)
    IN IF n = None THEN Panic(s) ELSE [s EXCEPT !.pc = "main", !.name = Some(n[1])]

\* Lines 90-91 with process_object_heading.
ProcessObjectHeading(s, e) ==
    LET n == ExtractName(e)
        o == IF n = None THEN None ELSE ObjectOfHeading(n[1])
    IN IF o = None THEN Panic(s)
       ELSE [s EXCEPT !.pc = "main", !.objects = Append(@, o[1])]

\* extract_attr_name_required with the two flags exchanged.
ExtractAttrFlagsExchanged(k, e) ==
    IF e.tag = "Text" THEN Some([required |-> k = 0, name |-> e.text]) ELSE None

\* extract_attr_name_required at its read number k (0, 1, 2): the pair
\* (required, name), None while nothing is found.
ExtractAttrNameRequired(k, e) ==
    IF e.tag = "Text" THEN Some([required |-> k > 0, name |-> e.text]) ELSE None

AttrPc(k) == CASE k = 0 -> "attr0" [] k = 1 -> "attr1" [] OTHER -> "attr2"

\* Lines 97-99 and 108-110 for an extractor that drops an attribute found
\* when there is no object.
AttributeStepSkipsWithoutObject(s, k, e) ==
    LET r == ExtractAttrNameRequired(k, e)
    IN IF r # None
       THEN IF s.objects = << >> THEN [s EXCEPT !.pc = "main"]
            ELSE [s EXCEPT !.pc = "main",
                           !.objects = AddAttribute(@, NewAttribute(r[1].name, r[1].required))]
       ELSE IF k = 2 THEN Panic(s)
       ELSE [s EXCEPT !.pc = AttrPc(k + 1)]

\* Lines 97-99 and 108-110: the attribute is added to the last object.
AttributeStep(s, k, e) ==
    LET r == ExtractAttrNameRequired(k, e)
    IN IF r # None
       THEN IF s.objects = << >> THEN Panic(s)
            ELSE [s EXCEPT !.pc = "main",
                           !.objects = AddAttribute(@, NewAttribute(r[1].name, r[1].required))]
       ELSE IF k = 2 THEN Panic(s)
       ELSE [s EXCEPT !.pc = AttrPc(k + 1)]

\* After the walk (lines 102-104): the strings collected wait for distribution.
EndWalk(s) ==
    [s EXCEPT !.pc = IF s.options = << >> THEN "main" ELSE "dist",
              !.pending = s.options, !.options = << >>]

\* The loop of extract_attribute_options ending the walk at a list start too.
WalkStepStopsAtListStart(s, e) ==
    CASE e = NoEvent \/ e.tag \in {"LE", "LS"} -> EndWalk(s)
      [] e.tag = "IT" -> [s EXCEPT !.pc = "walkname"]
      [] e = TextEv(<<"[">>) ->
            IF s.options = << >> THEN Panic(s)
            ELSE [s EXCEPT !.options = SetLast(@, @[Len(@)] \o <<"[", "]">>)]
      [] OTHER -> s

\* The loop of extract_attribute_options with the array marker put on the
\* first string collected.
WalkStepMarksFirst(s, e) ==
    CASE e = NoEvent \/ e.tag = "LE" -> EndWalk(s)
      [] e.tag = "IT" -> [s EXCEPT !.pc = "walkname"]
      [] e = TextEv(<<"[">>) ->
            IF s.options = << >> THEN Panic(s)
            ELSE [s EXCEPT !.options = [@ EXCEPT ![1] = @ \o <<"[", "]">>]]
      [] OTHER -> s

\* One turn of the loop of extract_attribute_options (lines 201-216).
WalkStep(s, e) ==
    CASE e = NoEvent \/ e.tag = "LE" -> EndWalk(s)
      [] e.tag = "IT" -> [s EXCEPT !.pc = "walkname"]
      [] e = TextEv(<<"[">>) ->
            IF s.options = << >> THEN Panic(s)
            ELSE [s EXCEPT !.options = SetLast(@, @[Len(@)] \o <<"[", "]">>)]
      [] OTHER -> s

\* Lines 204-205: the item's name joins the options.
WalkName(s, e) ==
    LET n == ExtractName(e)
    IN IF n = None THEN Panic(s)
       ELSE [s EXCEPT !.pc = "walk", !.options = Append(@, n[1])]

\* One turn of the for loop of lines 102-104.
DistributeStep(s) ==
    LET r == DistributeAttributeOptions(s.objects, Head(s.pending))
    IN IF r = None THEN Panic(s)
       ELSE [s EXCEPT !.objects = r[1], !.pending = Tail(@),
                      !.pc = IF Tail(s.pending) = << >> THEN "main" ELSE "dist"]

\* Pass 1 reading event e.
Pass1Read(s, e) ==
    CASE s.pc = "main" -> MainLoop1(s, e)
      [] s.pc = "h1" -> ModelName(s, e)
      [] s.pc = "h3" -> ProcessObjectHeading(s, e)
      [] s.pc = "skip" -> [s EXCEPT !.pc = "attr0"]
      [] s.pc = "attr0" -> AttributeStep(s, 0, e)
      [] s.pc = "attr1" -> AttributeStep(s, 1, e)
      [] s.pc = "attr2" -> AttributeStep(s, 2, e)
      [] s.pc = "walk" -> WalkStep(s, e)
      [] s.pc = "walkname" -> WalkName(s, e)

ReadPcs1 == {"main", "h1", "h3", "skip", "attr0", "attr1", "attr2", "walk", "walkname"}

\* ----------------------------------------------------------------- Pass 2

P2 == [pc |-> pc2, enums |-> enums]

SetP2(s) ==
    /\ pc2' = s.pc
    /\ enums' = s.enums

\* process_enum_event on the event the main loop read (lines 291-309).
ProcessEnumEvent(s, e) ==
    CASE e.tag = "H3" -> [s EXCEPT !.pc = "enumname"]
      [] e.tag = "CB" -> [s EXCEPT !.pc = "code"]
      [] OTHER -> s

\* The while loop of Pass 2 (lines 57-59).
MainLoop2(s, e) ==
    IF e = NoEvent THEN [s EXCEPT !.pc = "end"] ELSE ProcessEnumEvent(s, e)

\* Lines 293-298.
EnumHeading(s, e) ==
    LET n == ExtractName(e)
    IN IF n = None THEN Panic(s)
       ELSE [s EXCEPT !.pc = "main",
                      !.enums = Append(@, [name |-> n[1], mappings |-> {}])]

\* Lines 301-306 for an enumeration that takes only its first code block.
CodeBlockFirstOnly(s, e) ==
    IF e = NoEvent THEN Panic(s)
    ELSE IF e.tag # "Text" THEN [s EXCEPT !.pc = "main"]
    ELSE IF s.enums = << >> THEN Panic(s)
    ELSE LET en == s.enums[Len(s.enums)]
         IN [s EXCEPT !.pc = "main",
                      !.enums = SetLast(@, [en EXCEPT !.mappings =
                                    IF @ = {} THEN ProcessEnumMappings(@, e.text)
                                    ELSE @])]

\* Lines 301-306.
CodeBlock(s, e) ==
    IF e = NoEvent THEN Panic(s)
    ELSE IF e.tag # "Text" THEN [s EXCEPT !.pc = "main"]
    ELSE IF s.enums = << >> THEN Panic(s)
    ELSE LET en == s.enums[Len(s.enums)]
         IN [s EXCEPT !.pc = "main",
                      !.enums = SetLast(@, [en EXCEPT !.mappings =
                                               ProcessEnumMappings(@, e.text)])]

Pass2Read(s, e) ==
    CASE s.pc = "main" -> MainLoop2(s, e)
      [] s.pc = "enumname" -> EnumHeading(s, e)
      [] s.pc = "code" -> CodeBlock(s, e)

ReadPcs2 == {"main", "enumname", "code"}

\* --------------------------------------------------------------- filters

\* Lines 61-62 with the filter of line 62 left out.
ModelWithEmptyObjects ==
    [name |-> name,
     objects |-> objects,
     enums |-> SelectSeq(enums, HasValues)]

\* Lines 61-62 and the DataModel handed back.
FilteredModel ==
    [name |-> name,
     objects |-> SelectSeq(objects, HasAttributes),
     enums |-> SelectSeq(enums, HasValues)]

\* ---------------------------------------------------------------- actions

NoResult == [fn |-> "none", val |-> << >>]

InitCommon ==
    /\ iter = [p \in {"obj", "enum"} |-> [pos |-> 0, eof |-> FALSE]]
    /\ event = [p \in {"obj", "enum"} |-> NoEvent]
    /\ pc1 = "main"
    /\ name = None
    /\ objects = << >>
    /\ options = << >>
    /\ pending = << >>
    /\ pc2 = "main"
    /\ enums = << >>
    /\ model = None

\* Pass 1 calls iterator.next(), gets one of the events R, and acts on it.
ObjectReadFrom(R) ==
    /\ pc1 \in ReadPcs1
    /\ pc2 # "aborted"
    /\ \E e \in R :
          /\ Advance("obj", ObjIter, e)
          /\ SetP1(Pass1Read(P1, e))
    /\ UNCHANGED <<doc, p2vars, model, txt, out>>

\* Pass 1 distributes one collected string.
Distribute ==
    /\ pc1 = "dist"
    /\ pc2 # "aborted"
    /\ SetP1(DistributeStep(P1))
    /\ UNCHANGED <<doc, iter, event, p2vars, model, txt, out>>

\* Pass 2 calls iterator.next(), gets one of the events R, and acts on it.
EnumReadFrom(R) ==
    /\ pc2 \in ReadPcs2
    /\ pc1 # "aborted"
    /\ \E e \in R :
          /\ Advance("enum", EnumIter, e)
          /\ SetP2(Pass2Read(P2, e))
    /\ UNCHANGED <<doc, p1vars, model, txt, out>>

\* Both passes over: the filters, and the model is returned.  The validator
\* that follows reads the model and changes nothing of it.
Finish ==
    /\ pc1 = "end"
    /\ pc2 = "end"
    /\ model = None
    /\ model' = Some(FilteredModel)
    /\ UNCHANGED <<doc, iter, event, p1vars, p2vars, txt, out>>

\* -------------------------------- parse_markdown on a document (lines 40-68)

Init ==
    /\ doc \in Docs(MaxBlocks)
    /\ txt = << >>
    /\ out = NoResult
    /\ InitCommon

ObjectRead == ObjectReadFrom(DocRead(ObjIter))

\* Pass 2 starts once Pass 1 has ended.
EnumRead == pc1 = "end" /\ EnumReadFrom(DocRead(EnumIter))

Next == ObjectRead \/ Distribute \/ EnumRead \/ Finish

Spec == Init /\ [][Next]_vars

\* ------------------------------ Pass 1 on whatever the tokenizer may deliver

InitStream ==
    /\ doc = << >>
    /\ txt = << >>
    /\ out = NoResult
    /\ InitCommon

ObjectReadStream == ObjectReadFrom(StreamRead(ObjIter))

NextStream == ObjectReadStream \/ Distribute

SpecStream == InitStream /\ [][NextStream]_vars

\* ------------------------------ Pass 2 on whatever the tokenizer may deliver

EnumReadStream == pc1 = "main" /\ EnumReadFrom(EnumStreamRead(EnumIter))

NextEnumStream == EnumReadStream

SpecEnumStream == InitStream /\ [][NextEnumStream]_vars

\* -------------------------- the two passes interleaved on the same document

InitPar ==
    /\ doc \in Docs(MaxParBlocks)
    /\ txt = << >>
    /\ out = NoResult
    /\ InitCommon

\* Pass 2 without waiting for Pass 1.
EnumReadPar == EnumReadFrom(DocRead(EnumIter))

NextPar == ObjectRead \/ Distribute \/ EnumReadPar \/ Finish

SpecPar == InitPar /\ [][NextPar]_vars

\* ------------------------------------------------- the pure text functions

InitText ==
    /\ doc = << >>
    /\ txt \in TextInputs
    /\ out = NoResult
    /\ InitCommon

ApplyObjectOfHeading ==
    /\ out = NoResult
    /\ out' = [fn |-> "heading", val |-> ObjectOfHeading(txt)]
    /\ UNCHANGED <<doc, iter, event, p1vars, p2vars, model, txt>>

ApplyProcessOption ==
    /\ out = NoResult
    /\ out' = [fn |-> "option", val |-> ProcessOption(txt)]
    /\ UNCHANGED <<doc, iter, event, p1vars, p2vars, model, txt>>

ApplyProcessEnumMappings ==
    /\ out = NoResult
    /\ out' = [fn |-> "mappings", val |-> ProcessEnumMappings({}, txt)]
    /\ UNCHANGED <<doc, iter, event, p1vars, p2vars, model, txt>>

\* A token parsed, the value serialized, and the fields deserialized.
ApplyXmlType ==
    /\ out = NoResult
    /\ out' = [fn |-> "xmltype",
               val |-> [parsed |-> XmlFromStr(txt),
                        wire |-> XmlSerialize(XmlFromStr(txt)),
                        back |-> XmlDeserialize(XmlSerialize(XmlFromStr(txt)))]]
    /\ UNCHANGED <<doc, iter, event, p1vars, p2vars, model, txt>>

NextText ==
    \/ ApplyObjectOfHeading
    \/ ApplyProcessOption
    \/ ApplyProcessEnumMappings
    \/ ApplyXmlType

SpecText == InitText /\ [][NextText]_vars

\* --------------------------------------------------------- the type registry

InitTypes ==
    /\ doc = << >>
    /\ txt \in TypeLists
    /\ out = NoResult
    /\ InitCommon

\* dtype_to_json asked about the first name of the list.
ApplyDtypeToJson ==
    /\ out = NoResult
    /\ txt # << >>
    /\ out' = [fn |-> "json", val |-> DtypeToJson(Head(txt))]
    /\ UNCHANGED <<doc, iter, event, p1vars, p2vars, model, txt>>

\* Both filters applied to the list.
ApplyFilters ==
    /\ out = NoResult
    /\ out' = [fn |-> "filters",
               val |-> [primitive |-> FilterPrimitive(txt),
                        non_primitive |-> FilterNonPrimitives(txt)]]
    /\ UNCHANGED <<doc, iter, event, p1vars, p2vars, model, txt>>

NextTypes == ApplyDtypeToJson \/ ApplyFilters

SpecTypes == InitTypes /\ [][NextTypes]_vars

\* ------------------------------------------------------------- the claims

\* The objects vector with `attr` appended to its last object and nothing
\* else changed, written out field by field.
LastObjectGains(old, new, attr) ==
    /\ Len(new) = Len(old)
    /\ \A i \in 1..(Len(old) - 1) : new[i] = old[i]
    /\ new[Len(old)].name = old[Len(old)].name
    /\ new[Len(old)].term = old[Len(old)].term
    /\ new[Len(old)].attributes = old[Len(old)].attributes \o <<attr>>

\* C1: in Pass 1 a collected string that contains ':' appends exactly one
\* option to the last attribute of the last object; the objects, their names
\* and terms, the number of attributes of every object, and the name, the
\* required flag and the options of every other attribute stay as they were.
C1_OptionGoesToLastAttribute ==
    [][(pc1 = "dist" /\ Contains(Head(pending), ":")) =>
          LET n == Len(objects)
              old == objects[n].attributes
              new == objects'[n].attributes
              m == Len(old)
          IN /\ pc1' # "aborted"
             /\ n > 0 /\ m > 0
             /\ Len(objects') = n
             /\ \A i \in 1..(n - 1) : objects'[i] = objects[i]
             /\ objects'[n].name = objects[n].name
             /\ objects'[n].term = objects[n].term
             /\ Len(new) = m
             /\ \A j \in 1..(m - 1) : new[j] = old[j]
             /\ new[m].name = old[m].name
             /\ new[m].required = old[m].required
             /\ Len(new[m].options) = Len(old[m].options) + 1
             /\ SubSeq(new[m].options, 1, Len(old[m].options)) = old[m].options
             /\ pending' = Tail(pending)]_vars

\* C1's case: two objects with an attribute each, and the option string has
\* been distributed: only the attribute of the last object carries an option.
C1_Witness ==
    /\ pc1 = "main"
    /\ Len(objects) = 2
    /\ Len(objects[1].attributes) = 1
    /\ objects[1].attributes[1].options = << >>
    /\ Len(objects[2].attributes) = 1
    /\ Len(objects[2].attributes[1].options) = 1

\* C2: in the dual-read path a text run read first gives an attribute of that
\* name with required = false; a text run read second or third gives an
\* attribute of that name with required = true; a read that is no text run
\* adds nothing.
C2_DualRead ==
    [][(pc1 \in {"attr0", "attr1", "attr2"} /\ objects # << >>) =>
          IF event'["obj"].tag = "Text"
          THEN /\ pc1' = "main"
               /\ LastObjectGains(objects, objects',
                     [name |-> event'["obj"].text,
                      required |-> (pc1 # "attr0"),
                      options |-> << >>])
          ELSE /\ objects' = objects
               /\ pc1' = CASE pc1 = "attr0" -> "attr1"
                           [] pc1 = "attr1" -> "attr2"
                           [] OTHER -> "aborted"]_vars

\* C2's case: one object holds an attribute read at once and one recovered on
\* a later read.
C2_Witness ==
    /\ pc1 = "main"
    /\ objects # << >>
    /\ \E i, j \in 1..Len(objects[Len(objects)].attributes) :
          /\ objects[Len(objects)].attributes[i].required = FALSE
          /\ objects[Len(objects)].attributes[j].required = TRUE


\* sub is seq with some of its elements left out.
RECURSIVE IsSubsequence(_, _)
IsSubsequence(sub, seq) ==
    IF sub = << >> THEN TRUE
    ELSE IF seq = << >> THEN FALSE
    ELSE IF Head(sub) = Head(seq) THEN IsSubsequence(Tail(sub), Tail(seq))
    ELSE IsSubsequence(sub, Tail(seq))

\* kept holds exactly the elements of all at the indices in keep, in order.
KeepsExactly(kept, all, keep) ==
    /\ Len(kept) = Cardinality(keep)
    /\ \A i \in keep : kept[Cardinality({j \in keep : j <= i})] = all[i]

\* The texts that follow the level-3 heading starts of the document, in order.
HeadingTexts ==
    LET at == {i \in 1..(Len(doc) - 1) : doc[i] = H3 /\ doc[i + 1].tag = "Text"}
        RECURSIVE From(_)
        From(i) == IF i >= Len(doc) THEN << >>
                   ELSE IF i \in at THEN <<doc[i + 1].text>> \o From(i + 1)
                   ELSE From(i + 1)
    IN From(1)

\* The first word of a heading text, read off the text itself.
IsFirstWordOf(w, s) ==
    \E a \in 1..Len(s) :
       /\ \A i \in 1..(a - 1) : IsSpace(s[i])
       /\ w # << >>
       /\ a + Len(w) - 1 <= Len(s)
       /\ w = SubSeq(s, a, a + Len(w) - 1)
       /\ \A i \in 1..Len(w) : ~IsSpace(w[i])
       /\ (a + Len(w) <= Len(s) => IsSpace(s[a + Len(w)]))

\* C3: the model returned holds no object without attributes and no
\* enumeration without mappings; it holds every object that has an attribute
\* and every enumeration that has a mapping, in the order in which they were
\* created, which is the order of the level-3 headings of the document.
C3_FilteredModel ==
    model # None =>
       LET m == model[1]
       IN /\ \A i \in 1..Len(m.objects) : m.objects[i].attributes # << >>
          /\ \A i \in 1..Len(m.enums) : m.enums[i].mappings # {}
          /\ KeepsExactly(m.objects, objects,
                {i \in 1..Len(objects) : objects[i].attributes # << >>})
          /\ KeepsExactly(m.enums, enums,
                {i \in 1..Len(enums) : enums[i].mappings # {}})
          /\ \E hs \in [1..Len(m.objects) -> 1..Len(HeadingTexts)] :
                /\ \A i, j \in 1..Len(m.objects) : i < j => hs[i] < hs[j]
                /\ \A i \in 1..Len(m.objects) :
                      IsFirstWordOf(m.objects[i].name, HeadingTexts[hs[i]])
          /\ IsSubsequence([i \in 1..Len(m.enums) |-> m.enums[i].name], HeadingTexts)

\* C3's case: extraction completed on a document of two headings; one object
\* and one enumeration were dropped, one of each was kept.
C3_Witness ==
    /\ model # None
    /\ Len(objects) = 2
    /\ Len(model[1].objects) = 1
    /\ Len(enums) = 2
    /\ Len(model[1].enums) = 1


\* A parenthesised group of s: "(" at i, ")" at j, and between them at least
\* one character, none of them ")".
IsGroup(s, i, j) ==
    /\ i + 1 < j
    /\ s[i] = "("
    /\ s[j] = ")"
    /\ \A k \in (i + 1)..(j - 1) : s[k] # ")"

Groups(s) == {g \in (1..Len(s)) \X (1..Len(s)) : IsGroup(s, g[1], g[2])}

\* C4: the object made from a level-3 heading text is named by the first
\* whitespace-delimited word of the text; its term is the content of the first
\* parenthesised group of the text, and None when the text has no such group,
\* so also when it has no parentheses.  A text without a word makes no object.
C4_HeadingNameAndTerm ==
    out.fn = "heading" =>
       IF out.val = None
       THEN \A i \in 1..Len(txt) : IsSpace(txt[i])
       ELSE /\ IsFirstWordOf(out.val[1].name, txt)
            /\ out.val[1].attributes = << >>
            /\ IF Groups(txt) = {}
               THEN out.val[1].term = None
               ELSE \E g \in Groups(txt) :
                       /\ \A h \in Groups(txt) : g[1] <= h[1]
                       /\ out.val[1].term = Some(SubSeq(txt, g[1] + 1, g[2] - 1))
            /\ ((\A i \in 1..Len(txt) : txt[i] \notin {"(", ")"})
                   => out.val[1].term = None)

\* C4's case: a heading of a name, a blank and a parenthesised term.
C4_Witness ==
    /\ out.fn = "heading"
    /\ txt = <<"A", " ", "(", "t", ")">>
    /\ out.val = Some([name |-> <<"A">>, term |-> Some(<<"t">>), attributes |-> << >>])

\* t is s without the whitespace at its two ends, read off s itself.
IsTrimOf(t, s) ==
    \E a, b \in 0..Len(s) :
       /\ a + b <= Len(s)
       /\ \A i \in 1..a : IsSpace(s[i])
       /\ \A i \in (Len(s) - b + 1)..Len(s) : IsSpace(s[i])
       /\ t = SubSeq(s, a + 1, Len(s) - b)
       /\ (t # << >> => ~IsSpace(t[1]) /\ ~IsSpace(t[Len(t)]))

\* C7: for a string with a ':' process_option returns as key the text before
\* the first ':' and as value the whole text after it, further colons kept,
\* each without the whitespace at its two ends; a string without ':' fails
\* the assertion.
C7_KeyAndValue ==
    out.fn = "option" =>
       IF ~Contains(txt, ":") THEN out.val = None
       ELSE \E c \in 1..Len(txt) :
               /\ txt[c] = ":"
               /\ \A i \in 1..(c - 1) : txt[i] # ":"
               /\ out.val # None
               /\ IsTrimOf(out.val[1].key, SubSeq(txt, 1, c - 1))
               /\ IsTrimOf(out.val[1].value, SubSeq(txt, c + 1, Len(txt)))

\* C7's case: a value that holds a colon of its own, and whitespace dropped.
C7_Witness ==
    /\ out.fn = "option"
    /\ out.val # None
    /\ Contains(out.val[1].value, ":")
    /\ out.val[1].key # << >>
    /\ Len(out.val[1].key) + Len(out.val[1].value) + 1 < Len(txt)

\* The lines of s: each runs from a start (the first place, or the place after
\* a newline) to the place before the next newline, or to the end.
LineStarts(s) == {a \in 1..(Len(s) + 1) : a = 1 \/ s[a - 1] = "\n"}

LineOf(s, a) ==
    LET nl == {i \in a..Len(s) : s[i] = "\n"}
        stop == IF nl = {} THEN Len(s) + 1 ELSE CHOOSE i \in nl : \A j \in nl : i <= j
    IN SubSeq(s, a, stop - 1)

\* The places of c in s.
Places(s, c) == {i \in 1..Len(s) : s[i] = c}

\* s trimmed and then without its quote characters, read off s itself.
Cleaned(s) ==
    LET t == CHOOSE u \in {SubSeq(s, a, b) : a \in 1..(Len(s) + 1), b \in 0..Len(s)} :
                IsTrimOf(u, s)
    IN SelectSeq(t, LAMBDA x : x # "\"")

\* The lines that stand for an entry: those with exactly one '='.
EntryLines(s) == {a \in LineStarts(s) : Cardinality(Places(LineOf(s, a), "=")) = 1}

\* The entry of the line that starts at a.
EntryOf(s, a) ==
    LET line == LineOf(s, a)
        e == CHOOSE i \in Places(line, "=") : TRUE
    IN <<Cleaned(SubSeq(line, 1, e - 1)), Cleaned(SubSeq(line, e + 1, Len(line)))>>

\* C8: of a code block text every line with exactly one '=' inserts the entry
\* (left side -> right side), each side trimmed and without quotes, a later
\* line replacing the entry of an earlier one with the same key; every other
\* line (blank, without '=', with several '=') changes nothing.
C8_Mappings ==
    out.fn = "mappings" =>
       out.val = {EntryOf(txt, a) : a \in
                     {a \in EntryLines(txt) :
                         \A b \in EntryLines(txt) :
                            b > a => EntryOf(txt, b)[1] # EntryOf(txt, a)[1]}}

\* C8's case: a text of a mapping line with a quoted value and a blank line.
C8_Witness ==
    /\ out.fn = "mappings"
    /\ txt = <<"k", "=", "\"", "\"", "\n">>
    /\ out.val = {<<<<"k">>, << >>>>}


C6_Original ==
    [][(/\ pc1 = "dist"
        /\ Contains(Head(pending), ":")
        /\ Trim(Join(Tail(Split(Head(pending), ":")), ":")) = << >>)
          => (pc1' = "aborted" /\ objects' = objects)]_vars

\* C9 as amended: every level-1 heading whose text is read sets the model name
\* to that text, so that the name after Pass 1 is the text of the last one;
\* nothing else changes the name.
C9_LastTitleNames ==
    [][/\ (pc1 = "h1" /\ event'["obj"].tag = "Text")
             => name' = Some(event'["obj"].text)
       /\ (pc1 # "h1" => name' = name)]_vars

\* C9's case: a document of two titles has been extracted, and the model has
\* the name of the second.
C9_Witness ==
    /\ doc = <<H1, TextEv(<<"M">>), OT, H1, TextEv(<<"N">>), OT>>
    /\ model # None
    /\ model[1].name = Some(<<"N">>)

\* C9 as stated: the model name is the text of the first level-1 heading, and
\* a later level-1 heading does not change it.
C9_Original ==
    [][name # None => name' = name]_vars


\* Pass 1 run alone from state s on the events of doc after position pos,
\* until it ends or aborts.
RECURSIVE Run1(_, _)
Run1(s, pos) ==
    IF s.pc = "dist" THEN Run1(DistributeStep(s), pos)
    ELSE IF s.pc \notin ReadPcs1 THEN s
    ELSE IF pos < Len(doc) THEN Run1(Pass1Read(s, doc[pos + 1]), pos + 1)
    ELSE Run1(Pass1Read(s, NoEvent), pos)

\* Pass 2 run alone likewise.
RECURSIVE Run2(_, _)
Run2(s, pos) ==
    IF s.pc \notin ReadPcs2 THEN s
    ELSE IF pos < Len(doc) THEN Run2(Pass2Read(s, doc[pos + 1]), pos + 1)
    ELSE Run2(Pass2Read(s, NoEvent), pos)

\* What Pass 1 run to completion on doc leaves.
Sequential1 ==
    Run1([pc |-> "main", name |-> None, objects |-> << >>,
          options |-> << >>, pending |-> << >>], 0)

\* What Pass 2 run from its start on doc leaves.
Sequential2 == Run2([pc |-> "main", enums |-> << >>], 0)

\* C10: however the steps of Pass 1 and Pass 2 are interleaved, each pass
\* that has come to its end or has aborted has left exactly what it leaves
\* when run alone on the document, and a model that is returned is the one
\* the sequential run (Pass 1 to completion, then Pass 2) returns: the same
\* name, objects and enumerations.
C10_PassesIndependent ==
    /\ pc1 \in {"end", "aborted"} => P1 = Sequential1
    /\ pc2 \in {"end", "aborted"} => P2 = Sequential2
    /\ model # None =>
          /\ Sequential1.pc = "end"
          /\ Sequential2.pc = "end"
          /\ model[1].name = Sequential1.name
          /\ model[1].objects = SelectSeq(Sequential1.objects, HasAttributes)
          /\ model[1].enums = SelectSeq(Sequential2.enums, HasValues)

\* C10's case: Pass 2 has run to its end and left an enumeration with a
\* mapping while Pass 1, which has made an object, is still reading.
C10_Witness ==
    /\ pc2 = "end"
    /\ pc1 \in ReadPcs1
    /\ iter["obj"].pos > 0
    /\ iter["obj"].pos < Len(doc)
    /\ objects # << >>
    /\ \E i \in 1..Len(enums) : HasValues(enums[i])


\* The positions of doc that hold the start of a level-3 heading.
HeadingPositions == {p \in 1..Len(doc) : doc[p] = H3}

\* The positions from heading p up to the next level-3 heading or the end.
Segment(p) ==
    {q \in p..Len(doc) : \A r \in (p + 1)..q : doc[r] # H3}

\* No level-3 heading of doc is followed, before the next one, by both a list
\* or item and a code block.
ListsAndCodeApart ==
    \A p \in HeadingPositions :
       ~ /\ \E q \in Segment(p) : doc[q] \in {LS, IT}
         /\ \E q \in Segment(p) : doc[q] = CB

\* For each object Pass 1 makes on doc, in order, the number of the level-3
\* heading it was made at: Pass 1 followed from state s at position pos.
RECURSIVE ObjectHeadings(_, _, _)
ObjectHeadings(s, pos, hs) ==
    IF s.pc = "dist" THEN ObjectHeadings(DistributeStep(s), pos, hs)
    ELSE IF s.pc \notin ReadPcs1 THEN hs
    ELSE LET e == IF pos < Len(doc) THEN doc[pos + 1] ELSE NoEvent
             t == Pass1Read(s, e)
             k == Cardinality({p \in HeadingPositions : p <= pos})
         IN ObjectHeadings(t, IF e = NoEvent THEN pos ELSE pos + 1,
                           IF Len(t.objects) > Len(s.objects)
                           THEN Append(hs, k) ELSE hs)

\* C11: when no level-3 heading is followed by both lists and a code block,
\* no heading gives both an object with attributes and an enumeration with
\* mappings, so that the returned model holds at most one entry for each
\* level-3 heading.
C11_ObjectOrEnumeration ==
    (model # None /\ ListsAndCodeApart) =>
       LET hs == ObjectHeadings([pc |-> "main", name |-> None, objects |-> << >>,
                                 options |-> << >>, pending |-> << >>], 0, << >>)
       IN /\ Len(hs) = Len(objects)
          /\ Len(enums) = Cardinality(HeadingPositions)
          /\ \A j \in 1..Len(objects) :
                ~(HasAttributes(objects[j]) /\ HasValues(enums[hs[j]]))
          /\ Len(model[1].objects) + Len(model[1].enums)
                <= Cardinality(HeadingPositions)

\* C11's case: a heading with an item and a heading with a code block have
\* given one object and one enumeration.
C11_Witness ==
    /\ model # None
    /\ ListsAndCodeApart
    /\ Cardinality(HeadingPositions) = 2
    /\ Len(model[1].objects) = 1
    /\ Len(model[1].enums) = 1


\* The mapping a code block text gives on its own: the entry of every line
\* with exactly one '=', the last line winning among those of the same key.
MappingsOf(text) ==
    {EntryOf(text, a) : a \in
        {a \in EntryLines(text) :
            \A b \in EntryLines(text) :
               b > a => EntryOf(text, b)[1] # EntryOf(text, a)[1]}}

\* C12 as amended: the mappings of an enumeration come from every code block
\* text read while it is the last enumeration, the first after its heading or
\* not: each adds its entries to the mappings already there, replacing those
\* of the same key; nothing else changes an enumeration, and an enumeration
\* that is no longer the last one never changes.
C12_EveryCodeBlockAdds ==
    [][LET n == Len(enums)
       IN /\ Len(enums') >= n
          /\ \A i \in 1..(n - 1) : enums'[i] = enums[i]
          /\ (n > 0 /\ enums'[n] # enums[n])
                => (pc2 = "code" /\ event'["enum"].tag = "Text")
          /\ (n > 0 /\ pc2 = "code" /\ event'["enum"].tag = "Text")
                => LET new == MappingsOf(event'["enum"].text)
                   IN /\ Len(enums') = n
                      /\ enums'[n].name = enums[n].name
                      /\ enums'[n].mappings =
                            {p \in enums[n].mappings :
                                \A q \in new : q[1] # p[1]} \cup new]_vars

\* C12's case: the last enumeration holds the entries of two code blocks.
C12_Witness ==
    /\ Len(enums) = 1
    /\ enums[1].mappings = {<<<<"k">>, <<"v">>>>, <<<<"a">>, <<"b">>>>}

\* C12 as stated: a code block read when the last enumeration already has
\* the mappings of an earlier code block gives it nothing.
C12_Original ==
    [][(pc2 = "code" /\ enums # << >> /\ HasValues(enums[Len(enums)]))
          => enums' = enums]_vars


\* C13: a token that starts with '@' parses to the Attribute variant with
\* is_attr = TRUE and the token without that one '@' as name, any other token
\* to the Element variant with is_attr = FALSE and the token as name; the
\* serialized value has exactly the fields is_attr and name, with the values
\* of the parsed one; deserializing them gives the parsed value back.
C13_XmlTypeRoundTrip ==
    out.fn = "xmltype" =>
       LET p == out.val.parsed
       IN /\ (txt # << >> /\ txt[1] = "@") =>
                /\ p.variant = "Attribute"
                /\ p.is_attr = TRUE
                /\ p.name = SubSeq(txt, 2, Len(txt))
          /\ ~(txt # << >> /\ txt[1] = "@") =>
                /\ p.variant = "Element"
                /\ p.is_attr = FALSE
                /\ p.name = txt
          /\ DOMAIN out.val.wire = {"is_attr", "name"}
          /\ out.val.wire.is_attr = p.is_attr
          /\ out.val.wire.name = p.name
          /\ out.val.back = p

\* C13's case: "@id" has gone through parsing, serializing and deserializing.
C13_Witness ==
    /\ out.fn = "xmltype"
    /\ txt = <<"@", "i", "d">>
    /\ out.val.wire = [is_attr |-> TRUE, name |-> <<"i", "d">>]
    /\ out.val.back.variant = "Attribute"


\* The JSON-Schema type of each recognized type name.
JsonTypeOf(dtype) ==
    CASE dtype = "string" -> "string"
      [] dtype = "float" -> "number"
      [] dtype = "integer" -> "integer"
      [] dtype = "boolean" -> "boolean"
      [] dtype = "bool" -> "boolean"
      [] dtype = "null" -> "null"

\* C14: dtype_to_json gives the JSON-Schema type of every name is_primitive
\* accepts and aborts on every name it rejects; the recognized names and the
\* keys of the JSON mapping are the same six names.
C14_DtypeToJson ==
    out.fn = "json" =>
       /\ {Types[i] : i \in 1..Len(Types)} = {p[1] : p \in JsonMappings}
       /\ {Types[i] : i \in 1..Len(Types)} =
             {"string", "float", "integer", "boolean", "bool", "null"}
       /\ IsPrimitive(Head(txt)) => out.val = Some(JsonTypeOf(Head(txt)))
       /\ ~IsPrimitive(Head(txt)) => out.val = None

\* C14's case: "bool" has been converted.
C14_Witness ==
    /\ out.fn = "json"
    /\ Head(txt) = "bool"
    /\ out.val = Some("boolean")

\* How many times x occurs in seq.
Count(seq, x) == Cardinality({i \in 1..Len(seq) : seq[i] = x})

\* C15: the two filters split a list of type names in two: each result is a
\* subsequence of the list, in its order and with its duplicates, every name
\* occurs in the two results together as often as in the list and in one of
\* them only, and filter_primitive's result is the recognized names of the
\* list.
C15_FiltersPartition ==
    out.fn = "filters" =>
       LET prim == out.val.primitive
           non == out.val.non_primitive
           known == {"string", "float", "integer", "boolean", "bool", "null"}
       IN /\ IsSubsequence(prim, txt)
          /\ IsSubsequence(non, txt)
          /\ \A x \in TypeNames :
                /\ Count(prim, x) + Count(non, x) = Count(txt, x)
                /\ Count(prim, x) = 0 \/ Count(non, x) = 0
          /\ \A i \in 1..Len(prim) : prim[i] \in known
          /\ \A i \in 1..Len(non) : non[i] \notin known
          /\ prim = SelectSeq(txt, LAMBDA x : x \in known)

\* C15's case: a list with a name twice, once before and once after a name
\* that is not recognized.
C15_Witness ==
    /\ out.fn = "filters"
    /\ txt = <<"string", "Thing", "string">>
    /\ out.val.primitive = <<"string", "string">>
    /\ out.val.non_primitive = <<"Thing">>


\* C16: in the option walk, a text run "[" read when a string has been
\* collected puts "[]" behind the last string collected and leaves the other
\* strings, their number and the objects as they are; the walk goes on, and
\* the strings go to the classification as they stand when the walk ends.
C16_ArrayMarker ==
    [][/\ (pc1 = "walk" /\ options # << >> /\ iter' # iter
              /\ event'["obj"] = TextEv(<<"[">>))
          => LET n == Len(options)
             IN /\ pc1' = "walk"
                /\ Len(options') = n
                /\ options'[n] = options[n] \o <<"[", "]">>
                /\ \A i \in 1..(n - 1) : options'[i] = options[i]
                /\ objects' = objects
       /\ (pc1 = "walk" /\ pc1' = "dist")
          => (pending' = options /\ objects' = objects)]_vars

\* C16's case: of two strings collected the second got the marker.
C16_Witness ==
    /\ pc1 = "walk"
    /\ event["obj"] = TextEv(<<"[">>)
    /\ Len(options) = 2
    /\ options[1] = <<"a">>
    /\ options[2] = <<"a", "[", "]">>


\* C17: in the distribution after the option walk, a string without ':' gives
\* the last object one new attribute, with the string as name, not required
\* and without options, behind the attributes it has, so that it is the last
\* attribute from then on; nothing else changes, Pass 1 does not abort, and
\* no step of the distribution adds a required attribute.
C17_NewOptionalAttribute ==
    [][/\ (pc1 = "dist" /\ ~Contains(Head(pending), ":"))
          => LET n == Len(objects)
                 attr == [name |-> Head(pending), required |-> FALSE,
                          options |-> << >>]
             IN /\ pc1' # "aborted"
                /\ n > 0
                /\ LastObjectGains(objects, objects', attr)
                /\ LET as == objects'[n].attributes IN as[Len(as)] = attr
                /\ pending' = Tail(pending)
       /\ (pc1 = "dist")
          => /\ Len(objects') = Len(objects)
             /\ \A i \in 1..Len(objects) :
                   \A j \in 1..Len(objects'[i].attributes) :
                      (j > Len(objects[i].attributes))
                         => ~objects'[i].attributes[j].required]_vars

\* C17's case: the string "a[]" of the walk has become the last attribute,
\* not required, and the option collected after it is attached to it.
C17_Witness ==
    /\ pc1 = "main"
    /\ Len(objects) = 1
    /\ Len(objects[1].attributes) = 2
    /\ objects[1].attributes[2].name = <<"a", "[", "]">>
    /\ objects[1].attributes[2].required = FALSE
    /\ objects[1].attributes[2].options = <<[key |-> <<"k">>, value |-> <<"v">>]>>
    /\ objects[1].attributes[1].options = << >>


\* C18 as amended: the option walk collects one string for every item start
\* it reads, takes no account of a list start it reads, and stops at the
\* first list end it reads (or at the end of the stream), which is the end of
\* a nested list when there is one and not the end of the list whose start
\* began the walk; an item start read by the main loop, one of the items that
\* are left of that list among them, goes to the direct list-item rule.
C18_WalkEndsAtFirstListEnd ==
    [][(iter' # iter \/ event' # event) =>
          LET e == event'["obj"]
          IN /\ (pc1 = "walk" /\ e \in {LE, NoEvent})
                   => (pc1' \in {"dist", "main"} /\ pending' = options
                          /\ objects' = objects)
             /\ (pc1 = "walk" /\ e \notin {LE, NoEvent})
                   => pc1' \in {"walk", "walkname", "aborted"}
             /\ (pc1 = "walk" /\ e = LS)
                   => (pc1' = "walk" /\ options' = options /\ objects' = objects)
             /\ (pc1 = "walk" /\ e = IT)
                   => (pc1' = "walkname" /\ options' = options)
             /\ (pc1 = "walkname" /\ e.tag = "Text")
                   => (pc1' = "walk" /\ options' = Append(options, e.text))
             /\ (pc1 = "main" /\ e = IT) => pc1' = "attr0"]_vars

\* C18's case: in the second of two lists under a heading, the walk that
\* began at the start of the list has stopped at the end of the list nested
\* in the first item, and the main loop has read the start of the second item.
C18_Witness ==
    /\ doc = LET list == <<LS, IT, TextEv(<<"a">>),
                           LS, IT, TextEv(<<"k", ":", "v">>), IE, LE, IE,
                           IT, TextEv(<<"a">>), IE, LE>>
             IN <<H3, TextEv(<<"b">>), OT>> \o list \o list
    /\ iter["obj"].pos = 26
    /\ pc1 = "attr0"
    /\ Len(objects[1].attributes) = 3
    /\ objects[1].attributes[3].options = <<[key |-> <<"k">>, value |-> <<"v">>]>>

\* Pass 1 run from state s at position pos up to its read at position stop.
RECURSIVE RunTo(_, _, _)
RunTo(s, pos, stop) ==
    IF s.pc = "dist" THEN RunTo(DistributeStep(s), pos, stop)
    ELSE IF s.pc \notin ReadPcs1 \/ pos >= stop \/ pos >= Len(doc) THEN s
    ELSE RunTo(Pass1Read(s, doc[pos + 1]), pos + 1, stop)

\* The list start that the list end at position q of doc matches.
MatchingStart(q) ==
    LET count(p, x) == Cardinality({r \in (p + 1)..(q - 1) : doc[r] = x})
        starts == {p \in 1..(q - 1) : doc[p] = LS /\ count(p, LS) = count(p, LE)}
    IN CHOOSE p \in starts : \A r \in starts : r <= p

\* C18 as stated: the walk stops only at the list end that matches the list
\* start which began it, which Pass 1 read in its main loop.
C18_Original ==
    [][(pc1 = "walk" /\ iter' # iter /\ event'["obj"] = LE) =>
          LET p == MatchingStart(iter'["obj"].pos)
          IN RunTo([pc |-> "main", name |-> None, objects |-> << >>,
                    options |-> << >>, pending |-> << >>], 0, p - 1).pc = "main"]_vars


\* What is left for Pass 1 to do: the events not yet read count most; at the
\* same position, the reads and distribution steps that the position in the
\* code allows before the next event must be read or the pass is over.
Rank1 ==
    (Len(doc) + 4) * (Len(doc) - iter["obj"].pos)
       + CASE pc1 \in {"end", "aborted"} -> 0
           [] pc1 = "main" -> 1
           [] pc1 = "dist" -> 1 + Len(pending)
           [] pc1 = "walk" -> 2 + Len(options)
           [] pc1 \in {"h1", "h3", "walkname", "attr2"} -> 2
           [] pc1 = "attr1" -> 3
           [] pc1 = "attr0" -> 4
           [] pc1 = "skip" -> 5

\* The same for Pass 2.
Rank2 ==
    3 * (Len(doc) - iter["enum"].pos)
       + CASE pc2 \in {"end", "aborted"} -> 0
           [] pc2 = "main" -> 1
           [] pc2 \in {"enumname", "code"} -> 2

\* C19: each parser hands out the events of the document one by one in
\* order, every event once, and never goes back; every step of a pass that
\* reads, in the main loop, in a handler or in the option walk, takes one
\* event as long as there is one; a pass ends only on the read that finds the
\* stream exhausted; and every step of a pass brings it nearer to its end, so
\* that on a finite stream each pass ends or aborts.
C19_PassesConsumeAndEnd ==
    [][/\ \A p \in {"obj", "enum"} :
             /\ iter'[p].pos \in {iter[p].pos, iter[p].pos + 1}
             /\ (iter'[p].pos = iter[p].pos + 1) => event'[p] = doc[iter'[p].pos]
             /\ (iter'[p] # iter[p] /\ iter'[p].pos = iter[p].pos)
                   => (iter[p].pos = Len(doc) /\ event'[p] = NoEvent)
       /\ (<<p1vars, iter["obj"]>>' # <<p1vars, iter["obj"]>>)
             => /\ Rank1' < Rank1
                /\ (pc1 # "dist" /\ iter["obj"].pos < Len(doc))
                      => iter'["obj"].pos = iter["obj"].pos + 1
                /\ (pc1' = "end")
                      => (iter["obj"].pos = Len(doc) /\ event'["obj"] = NoEvent)
       /\ (<<p2vars, iter["enum"]>>' # <<p2vars, iter["enum"]>>)
             => /\ Rank2' < Rank2
                /\ (iter["enum"].pos < Len(doc))
                      => iter'["enum"].pos = iter["enum"].pos + 1
                /\ (pc2' = "end")
                      => (iter["enum"].pos = Len(doc) /\ event'["enum"] = NoEvent)]_vars

\* C19's case: both passes have ended, each with its stream exhausted, on a
\* document with an option walk.
C19_Witness ==
    /\ pc1 = "end"
    /\ pc2 = "end"
    /\ iter["obj"].pos = Len(doc)
    /\ iter["enum"].pos = Len(doc)
    /\ Len(doc) > 12
    /\ \E i \in 1..Len(objects) :
          \E j \in 1..Len(objects[i].attributes) :
             objects[i].attributes[j].options # << >>


\* No start of a level-3 heading is among the events parser p has handed out.
NoHeadingRead(p) == \A i \in 1..iter[p].pos : doc[i] # H3

\* C20: as long as Pass 1 has read no level-3 heading there is no object, a
\* list start read by the main loop aborts the pass, and the dual read begun
\* at an item start goes on to the abort without making anything; as long as
\* Pass 2 has read no level-3 heading there is no enumeration, and the text
\* run of a code block aborts the pass.  Where no abort follows, an attribute
\* or option goes to the last of the objects there are and a mapping to the
\* last of the enumerations there are, and nothing else of them changes.
C20_NothingBeforeHeading ==
    [][/\ NoHeadingRead("obj") => objects = << >>
       /\ NoHeadingRead("enum") => enums = << >>
       /\ (pc1 = "main" /\ NoHeadingRead("obj") /\ iter' # iter
              /\ event'["obj"] = LS)
             => pc1' = "aborted"
       /\ (pc1 = "main" /\ NoHeadingRead("obj") /\ iter' # iter
              /\ event'["obj"] = IT)
             => pc1' = "attr0"
       /\ (pc1 \in {"attr0", "attr1", "attr2"} /\ objects = << >>)
             => (pc1' \in {"attr0", "attr1", "attr2", "aborted"}
                    /\ objects' = << >>)
       /\ (pc2 = "code" /\ NoHeadingRead("enum") /\ iter' # iter
              /\ event'["enum"].tag = "Text")
             => (pc2' = "aborted" /\ enums' = << >>)
       /\ (pc1' # "aborted" /\ objects' # objects /\ Len(objects') = Len(objects))
             => /\ objects # << >>
                /\ \A i \in 1..(Len(objects) - 1) : objects'[i] = objects[i]
       /\ (pc2' # "aborted" /\ enums' # enums /\ Len(enums') = Len(enums))
             => /\ enums # << >>
                /\ \A i \in 1..(Len(enums) - 1) : enums'[i] = enums[i]]_vars

\* C20's case: Pass 1 has aborted on the text of an item that stands before
\* any heading.
C20_Witness ==
    /\ pc1 = "aborted"
    /\ objects = << >>
    /\ doc # << >>
    /\ doc[1] = IT
    /\ event["obj"].tag = "Text"
    /\ NoHeadingRead("obj")

=============================================================================
